---- MODULE Spec2Model ----
(***************************************************************************)
(* monman (src/lib.rs): enumeration of display adapters and monitors, the  *)
(* decoding of the DEVMODEW record into DisplayDeviceInfo, and the         *)
(* orientation change request.  The operating system is the environment:   *)
(* its answers to EnumDisplayDevicesW, EnumDisplaySettingsW and            *)
(* ChangeDisplaySettingsW are drawn from bounded sets.                     *)
(***************************************************************************)
EXTENDS Integers, Sequences, FiniteSets, TLC

VARIABLES
    os_adapters,   \* what EnumDisplayDevicesW(NULL, i, ..) answers, i = 0, 1, ..
    adapters,      \* result of DisplayAdapters::new
    nth_result,    \* last DisplayAdapters::nth(n): [n, tag, val]
    iter_result,   \* items yielded by the last DisplayAdapters::iter()
    monitors,      \* last DisplayAdapter::monitors(): [adapter, os, tag, val]
    text_buf,      \* a fixed-width UTF-16 buffer
    text_helper,   \* string_from_utf16_and_strip_null(text_buf)
    text_inline,   \* from_utf16(..).unwrap() + retain(..), as written in nth
    os_settings,   \* what EnumDisplaySettingsW answers: [ret, devmode]
    info,          \* result of DisplayAdapter::info
    set_call,      \* last DisplayAdapter::set_orientation call
    orient_trip    \* last as_raw / from_raw round trip

vars == <<os_adapters, adapters, nth_result, iter_result, monitors, text_buf,
          text_helper, text_inline, os_settings, info, set_call, orient_trip>>

(***************************************************************************)
(* Bounds of the model.                                                    *)
(***************************************************************************)
\* devices the OS reports to one enumeration
MaxDevices == 2

\* code units of a fixed-width text buffer
BufLen == 3

\* dmDisplayOrientation ranges over 0..MaxOrientationRaw
MaxOrientationRaw == 4

\* ChangeDisplaySettingsW returns a code of -MaxChangeCode..MaxChangeCode
MaxChangeCode == 7

(***************************************************************************)
(* Values of Option, Result and of an abort (panic!, unwrap on None/Err).  *)
(***************************************************************************)
None == [tag |-> "None"]
Some(v) == [tag |-> "Some", val |-> v]
Panic == [tag |-> "Panic"]
NotCalled == [tag |-> "NotCalled"]

(***************************************************************************)
(* Constants of the OS headers the source imports (winapi).                *)
(***************************************************************************)
DISPLAY_DEVICE_ACTIVE == 1
DISPLAY_DEVICE_PRIMARY_DEVICE == 4
DISPLAY_DEVICE_MIRRORING_DRIVER == 8
DISPLAY_DEVICE_VGA_COMPATIBLE == 16
DISPLAY_DEVICE_REMOVABLE == 32
DISPLAY_DEVICE_MODESPRUNED == 134217728

DM_POSITION == 32
DM_DISPLAYORIENTATION == 128
DM_BITSPERPEL == 262144
DM_PELSWIDTH == 524288
DM_PELSHEIGHT == 1048576
DM_DISPLAYFLAGS == 2097152
DM_DISPLAYFREQUENCY == 4194304
DM_INTERLACED == 2

DMDO_DEFAULT == 0
DMDO_90 == 1
DMDO_180 == 2
DMDO_270 == 3

DISP_CHANGE_SUCCESSFUL == 0
DISP_CHANGE_RESTART == 1
DISP_CHANGE_FAILED == -1
DISP_CHANGE_BADMODE == -2
DISP_CHANGE_NOTUPDATED == -3
DISP_CHANGE_BADFLAGS == -4
DISP_CHANGE_BADPARAM == -5
DISP_CHANGE_BADDUALVIEW == -6

(***************************************************************************)
(* bitflags!: a flags value is its u32; bits 0..30 are modelled.           *)
(***************************************************************************)
Bit(x, i) == (x \div (2 ^ i)) % 2 = 1

\* bitflags `contains`: every bit of m is set in x
contains(x, m) == \A i \in 0..30 : Bit(m, i) => Bit(x, i)

\* bitflags `from_bits`: None when x has a bit the type does not declare
from_bits(x, all) ==
    IF \A i \in 0..30 : Bit(x, i) => Bit(all, i) THEN Some(x) ELSE None

\* the union of the six constants of DisplayState
DisplayState_all ==
    DISPLAY_DEVICE_ACTIVE + DISPLAY_DEVICE_MIRRORING_DRIVER
    + DISPLAY_DEVICE_MODESPRUNED + DISPLAY_DEVICE_PRIMARY_DEVICE
    + DISPLAY_DEVICE_REMOVABLE + DISPLAY_DEVICE_VGA_COMPATIBLE

\* the union of the thirty constants of DmFields: bits 0..29
DmFields_all == (2 ^ 30) - 1

\* the union of the constants of DisplayFlags: INTERLACED alone
DisplayFlags_all == DM_INTERLACED

(***************************************************************************)
(* Text: String::from_utf16 and retain(|c| c != '\0').                     *)
(***************************************************************************)
Ok(v) == [tag |-> "Ok", val |-> v]
Err == [tag |-> "Err"]

IsHighSurrogate(u) == u >= 55296 /\ u <= 56319
IsLowSurrogate(u) == u >= 56320 /\ u <= 57343

RECURSIVE decode_utf16(_, _)
\* the chars of v[i..], or Err at an unpaired surrogate
decode_utf16(v, i) ==
    IF i > Len(v) THEN Ok(<<>>)
    ELSE IF ~IsHighSurrogate(v[i]) /\ ~IsLowSurrogate(v[i])
         THEN LET rest == decode_utf16(v, i + 1)
              IN  IF rest.tag = "Err" THEN Err ELSE Ok(<<v[i]>> \o rest.val)
    ELSE IF IsHighSurrogate(v[i]) /\ i < Len(v) /\ IsLowSurrogate(v[i + 1])
         THEN LET rest == decode_utf16(v, i + 2)
                  c == 65536 + (v[i] - 55296) * 1024 + (v[i + 1] - 56320)
              IN  IF rest.tag = "Err" THEN Err ELSE Ok(<<c>> \o rest.val)
    ELSE Err

String_from_utf16(v) == decode_utf16(v, 1)

\* String::retain(|c| c != '\u{0}')
retain_non_null(s) == SelectSeq(s, LAMBDA c : c # 0)

\* from_utf16(..).unwrap() then retain: Panic on malformed UTF-16
string_from_utf16_and_strip_null(v) ==
    LET r == String_from_utf16(v)
    IN  IF r.tag = "Err" THEN Panic ELSE Some(retain_non_null(r.val))

\* the same two statements as written inline in DisplayAdapter::nth and
\* Monitors::new, once per text field
decode_field(v) ==
    LET r == String_from_utf16(v)
    IN  IF r.tag = "Err" THEN Panic ELSE Some(retain_non_null(r.val))

(***************************************************************************)
(* Buffers.                                                                *)
(***************************************************************************)
CodeUnits == {0, 65, 66, 55296, 56320}
Buffers == [1..BufLen -> CodeUnits]

\* s followed by nulls up to the width of the buffer (mem::zeroed storage)
Pad(s) == [i \in 1..BufLen |-> IF i <= Len(s) THEN s[i] ELSE 0]
ZeroBuffer == Pad(<<>>)

(***************************************************************************)
(* DISPLAY_DEVICEW and the OS device enumeration.                          *)
(***************************************************************************)
DISPLAY_DEVICEW(names, strings, flags) ==
    [DeviceName : names, DeviceString : strings, StateFlags : flags,
     DeviceID : {Pad(<<>>)}, DeviceKey : {Pad(<<65, 66>>)}]

\* records the OS may write for an adapter: the name clean or with leftover
\* content after its terminator, the string well-formed or an unpaired
\* surrogate, the state ACTIVE|PRIMARY_DEVICE or a bit DisplayState lacks
AdapterDevices ==
    DISPLAY_DEVICEW({Pad(<<65>>), Pad(<<66, 0, 65>>)},
                    {Pad(<<66>>), Pad(<<55296>>)}, {5, 2})

\* records the OS may write for a monitor
MonitorDevices ==
    DISPLAY_DEVICEW({Pad(<<66, 0, 65>>)}, {Pad(<<66>>), Pad(<<55296>>)}, {0})

\* mem::zeroed()
ZeroedDevice ==
    [DeviceName |-> ZeroBuffer, DeviceString |-> ZeroBuffer, StateFlags |-> 0,
     DeviceID |-> ZeroBuffer, DeviceKey |-> ZeroBuffer]

\* an OS device table: the devices of indices 0..Len(devs)-1, each answered
\* with 1, and the value `last` answered for every further index (0 is "not
\* found"; any other value is no BOOL the binding expects)
Backends(devices) ==
    [devs : UNION {[1..k -> devices] : k \in 0..MaxDevices}, last : {0, 2}]

\* EnumDisplayDevicesW(.., n, &mut display_device, ..): the return value and
\* the record left in the caller's buffer
EnumDisplayDevicesW(os, n) ==
    IF n < Len(os.devs)
    THEN [ret |-> 1, dev |-> os.devs[n + 1]]
    ELSE [ret |-> os.last, dev |-> ZeroedDevice]

\* Option<DisplayAdapter>, or Panic
DisplayAdapter_nth(os, n) ==
    LET r == EnumDisplayDevicesW(os, n)
        d == r.dev
        name == decode_field(d.DeviceName)
        string == decode_field(d.DeviceString)
        state == from_bits(d.StateFlags, DisplayState_all)
        id == decode_field(d.DeviceID)
        key == decode_field(d.DeviceKey)
    IN  IF r.ret \notin {0, 1} THEN Panic
        ELSE IF r.ret = 0 THEN None
        ELSE IF name.tag = "Panic" \/ string.tag = "Panic" \/ state.tag = "None"
                \/ id.tag = "Panic" \/ key.tag = "Panic" THEN Panic
        ELSE Some([name |-> name.val, string |-> string.val, state |-> state.val,
                   id |-> id.val, key |-> key.val, raw |-> d])

RECURSIVE DisplayAdapters_loop(_, _, _)
\* for i in 0.. { if let Some(adapter) = nth(i) { push } else { break } }
DisplayAdapters_loop(os, i, acc) ==
    LET a == DisplayAdapter_nth(os, i)
    IN  IF a.tag = "Panic" THEN Panic
        ELSE IF a.tag = "None" THEN Some(acc)
        ELSE DisplayAdapters_loop(os, i + 1, Append(acc, a.val))

\* a mutant: the list is returned even when it is empty
DisplayAdapters_new_keeps_empty(os) == DisplayAdapters_loop(os, 0, <<>>)

\* Option<DisplayAdapters>, or Panic
DisplayAdapters_new(os) ==
    LET r == DisplayAdapters_loop(os, 0, <<>>)
    IN  IF r.tag = "Panic" THEN Panic
        ELSE IF r.val = <<>> THEN None
        ELSE Some(r.val)

\* self.adapters.get(n)
DisplayAdapters_nth(list, n) == IF n < Len(list) THEN Some(list[n + 1]) ELSE None

\* self.adapters.iter(): the items in the order yielded
DisplayAdapters_iter(list) == [i \in 1..Len(list) |-> list[i]]

RECURSIVE Monitors_loop(_, _, _)
\* while match EnumDisplayDevicesW(name, i, ..) { 0 => false, 1 => true, .. }
Monitors_loop(os, i, acc) ==
    LET r == EnumDisplayDevicesW(os, i)
        d == r.dev
        name == decode_field(d.DeviceName)
        string == decode_field(d.DeviceString)
        id == decode_field(d.DeviceID)
        key == decode_field(d.DeviceKey)
    IN  IF r.ret \notin {0, 1} THEN Panic
        ELSE IF r.ret = 0 THEN Some(acc)
        ELSE IF name.tag = "Panic" \/ string.tag = "Panic"
                \/ id.tag = "Panic" \/ key.tag = "Panic" THEN Panic
        ELSE Monitors_loop(os, i + 1,
                 Append(acc, [name |-> name.val, string |-> string.val,
                              id |-> id.val, key |-> key.val, raw |-> d]))

\* Option<Monitors>, or Panic; os is the table the OS keeps for the adapter
Monitors_new(os) ==
    LET r == Monitors_loop(os, 0, <<>>)
    IN  IF r.tag = "Panic" THEN Panic
        ELSE IF r.val = <<>> THEN None
        ELSE Some(r.val)

(***************************************************************************)
(* DEVMODEW and the device-mode translator.  Of the record, the fields the *)
(* code reads into its result are kept (dmSpecVersion is read into a local *)
(* that is never used).                                                    *)
(***************************************************************************)
DevmodeRecords(names, vers, masks, points, orients, bpps, ws, hs, flags, freqs) ==
    [dmDeviceName : names, dmDriverVersion : vers, dmFields : masks,
     dmPosition : points, dmDisplayOrientation : orients,
     dmBitsPerPel : bpps, dmPelsWidth : ws, dmPelsHeight : hs,
     dmDisplayFlags : flags, dmDisplayFrequency : freqs]

\* the presence bits DisplayDeviceInfo::new tests
DecodedBits ==
    {DM_POSITION, DM_DISPLAYORIENTATION, DM_BITSPERPEL, DM_PELSWIDTH,
     DM_PELSHEIGHT, DM_DISPLAYFLAGS, DM_DISPLAYFREQUENCY}

RECURSIVE SetSum(_)
SetSum(S) == IF S = {} THEN 0 ELSE LET x == CHOOSE y \in S : TRUE
                                   IN  x + SetSum(S \ {x})

\* bit 30, which DmFields does not declare
UndeclaredField == 2 ^ 30

\* every combination of the seven decoded bits, and two masks with bit 30
FieldMasks ==
    {SetSum(S) : S \in SUBSET DecodedBits}
    \cup {UndeclaredField, UndeclaredField + SetSum(DecodedBits)}

Points == {[x |-> 0, y |-> 0], [x |-> -1, y |-> 2]}

\* the device name with leftover content after its terminator, or an
\* unpaired surrogate
DevmodeNames == {Pad(<<65, 0, 66>>), Pad(<<55296>>)}

DEVMODEW ==
    DevmodeRecords(DevmodeNames, {1}, FieldMasks, Points,
                   0..MaxOrientationRaw, {0, 32}, {0, 1920}, {0, 1080},
                   {0, 1, 2}, {0, 60})

\* std::mem::zeroed()
ZeroedDevmode ==
    [dmDeviceName |-> ZeroBuffer, dmDriverVersion |-> 0, dmFields |-> 0,
     dmPosition |-> [x |-> 0, y |-> 0], dmDisplayOrientation |-> 0,
     dmBitsPerPel |-> 0, dmPelsWidth |-> 0, dmPelsHeight |-> 0,
     dmDisplayFlags |-> 0, dmDisplayFrequency |-> 0]

\* the answers of EnumDisplaySettingsW(name, ENUM_CURRENT_SETTINGS, &mut devmode):
\* nonzero with a record written, or zero with the buffer left as it was
SettingsAnswers ==
    [ret : {1}, devmode : DEVMODEW] \cup [ret : {0}, devmode : {ZeroedDevmode}]

\* the answers drawn for set_orientation, which passes the record through
SettingsSamples ==
    [ret : {1},
     devmode : DevmodeRecords({Pad(<<65>>)}, {1},
                              {0, DM_POSITION + DM_PELSWIDTH, SetSum(DecodedBits)},
                              {[x |-> -1, y |-> 2]}, {DMDO_DEFAULT, DMDO_180},
                              {32}, {1920}, {1080}, {0}, {60})]
    \cup [ret : {0}, devmode : {ZeroedDevmode}]

\* DisplayDeviceInfo::get_raw: the return value of the query is dropped
get_raw(answer) == answer.devmode

\* impl From<POINTL> for Point
Point_from(p) == [x |-> p.x, y |-> p.y]

DisplayOrientation == {"Default", "Rotate90", "Rotate180", "Rotate270"}

\* a mutant: an unknown value decodes to Default
DisplayOrientation_from_raw_defaulting(raw) ==
    IF raw = DMDO_90 THEN Some("Rotate90")
    ELSE IF raw = DMDO_180 THEN Some("Rotate180")
    ELSE IF raw = DMDO_270 THEN Some("Rotate270")
    ELSE Some("Default")

DisplayOrientation_from_raw(raw) ==
    IF raw = DMDO_DEFAULT THEN Some("Default")
    ELSE IF raw = DMDO_90 THEN Some("Rotate90")
    ELSE IF raw = DMDO_180 THEN Some("Rotate180")
    ELSE IF raw = DMDO_270 THEN Some("Rotate270")
    ELSE None

\* a mutant: Rotate270 is encoded as DMDO_180
DisplayOrientation_as_raw_swapped(o) ==
    CASE o = "Default" -> DMDO_DEFAULT
      [] o = "Rotate90" -> DMDO_90
      [] o = "Rotate180" -> DMDO_180
      [] o = "Rotate270" -> DMDO_180

DisplayOrientation_as_raw(o) ==
    CASE o = "Default" -> DMDO_DEFAULT
      [] o = "Rotate90" -> DMDO_90
      [] o = "Rotate180" -> DMDO_180
      [] o = "Rotate270" -> DMDO_270

\* the body of DisplayDeviceInfo::new after get_raw: DisplayDeviceInfo, or Panic
DisplayDeviceInfo_decode(devmode) ==
    LET name == string_from_utf16_and_strip_null(devmode.dmDeviceName)
        fields == from_bits(devmode.dmFields, DmFields_all)
        has(bit) == contains(devmode.dmFields, bit)
    IN  IF name.tag = "Panic" \/ fields.tag = "None" THEN Panic
        ELSE [tag |-> "Info",
              name |-> name.val,
              driver_version |-> devmode.dmDriverVersion,
              position |-> IF has(DM_POSITION)
                           THEN Some(Point_from(devmode.dmPosition)) ELSE None,
              orientation |-> IF has(DM_DISPLAYORIENTATION)
                              THEN DisplayOrientation_from_raw(devmode.dmDisplayOrientation)
                              ELSE None,
              bits_per_pel |-> IF has(DM_BITSPERPEL)
                               THEN Some(devmode.dmBitsPerPel) ELSE None,
              pels_width |-> IF has(DM_PELSWIDTH)
                             THEN Some(devmode.dmPelsWidth) ELSE None,
              pels_height |-> IF has(DM_PELSHEIGHT)
                              THEN Some(devmode.dmPelsHeight) ELSE None,
              flags |-> IF has(DM_DISPLAYFLAGS)
                        THEN from_bits(devmode.dmDisplayFlags, DisplayFlags_all)
                        ELSE None,
              frequency |-> IF has(DM_DISPLAYFREQUENCY)
                            THEN Some(devmode.dmDisplayFrequency) ELSE None]

\* a mutant: bits_per_pel is decoded whatever its presence bit
DisplayDeviceInfo_new_depth_unmasked(answer) ==
    LET r == DisplayDeviceInfo_decode(get_raw(answer))
    IN  IF r.tag = "Panic" THEN r
        ELSE [r EXCEPT !.bits_per_pel = Some(get_raw(answer).dmBitsPerPel)]

\* DisplayDeviceInfo::new(adapter), given what the OS answers its query
DisplayDeviceInfo_new(answer) == DisplayDeviceInfo_decode(get_raw(answer))

(***************************************************************************)
(* The orientation change request.                                         *)
(***************************************************************************)
ChangeCodes == (0 - MaxChangeCode)..MaxChangeCode

SetDisplaySettingsError ==
    {"BadDualView", "BadFlags", "BadMode", "BadParam", "Failed", "NotUpdated",
     "Restart"}

ErrOf(e) == [tag |-> "Err", val |-> e]

\* a mutant: the bad-mode code is reported as the generic failure
SetDisplaySettingsError_from_raw_generic(raw) ==
    IF raw \in DISP_CHANGE_BADDUALVIEW..DISP_CHANGE_RESTART
       /\ raw # DISP_CHANGE_SUCCESSFUL
    THEN ErrOf("Failed") ELSE Panic

\* the variant of a return code, or Panic
SetDisplaySettingsError_from_raw(raw) ==
    CASE raw = DISP_CHANGE_BADDUALVIEW -> ErrOf("BadDualView")
      [] raw = DISP_CHANGE_BADFLAGS -> ErrOf("BadFlags")
      [] raw = DISP_CHANGE_BADMODE -> ErrOf("BadMode")
      [] raw = DISP_CHANGE_BADPARAM -> ErrOf("BadParam")
      [] raw = DISP_CHANGE_FAILED -> ErrOf("Failed")
      [] raw = DISP_CHANGE_NOTUPDATED -> ErrOf("NotUpdated")
      [] raw = DISP_CHANGE_RESTART -> ErrOf("Restart")
      [] OTHER -> Panic

\* a mutant: the orientation bit is added to the mask the query returned
set_orientation_request_keeps_mask(answer, orientation) ==
    [devmode |-> [get_raw(answer) EXCEPT
                     !.dmFields = IF contains(@, DM_DISPLAYORIENTATION)
                                  THEN @ ELSE @ + DM_DISPLAYORIENTATION,
                     !.dmDisplayOrientation = DisplayOrientation_as_raw(orientation)],
     dwFlags |-> 0]

\* the arguments set_orientation passes to ChangeDisplaySettingsW
set_orientation_request(answer, orientation) ==
    [devmode |-> [get_raw(answer) EXCEPT
                     !.dmFields = DM_DISPLAYORIENTATION,
                     !.dmDisplayOrientation = DisplayOrientation_as_raw(orientation)],
     dwFlags |-> 0]

\* match ret { DISP_CHANGE_SUCCESSFUL => Ok(()), n => Err(from_raw(n)) }
set_orientation_result(ret) ==
    IF ret = DISP_CHANGE_SUCCESSFUL THEN Ok(<<>>)
    ELSE SetDisplaySettingsError_from_raw(ret)

(***************************************************************************)
(* Operations.                                                             *)
(***************************************************************************)
Idle ==
    /\ adapters = NotCalled
    /\ nth_result = NotCalled
    /\ iter_result = NotCalled
    /\ monitors = NotCalled
    /\ text_helper = NotCalled
    /\ text_inline = NotCalled
    /\ info = NotCalled
    /\ set_call = NotCalled
    /\ orient_trip = NotCalled

\* DisplayAdapters::new()
NewAdapters ==
    /\ adapters' = DisplayAdapters_new(os_adapters)
    /\ UNCHANGED <<os_adapters, nth_result, iter_result, monitors, text_buf,
                   text_helper, text_inline, os_settings, info, set_call,
                   orient_trip>>

\* DisplayAdapters::nth(&self, n)
NthAdapter ==
    /\ adapters.tag = "Some"
    /\ \E n \in 0..MaxDevices :
          nth_result' = [n |-> n, got |-> DisplayAdapters_nth(adapters.val, n)]
    /\ UNCHANGED <<os_adapters, adapters, iter_result, monitors, text_buf,
                   text_helper, text_inline, os_settings, info, set_call,
                   orient_trip>>

\* DisplayAdapters::iter(&self), run to its end
IterAdapters ==
    /\ adapters.tag = "Some"
    /\ iter_result' = Some(DisplayAdapters_iter(adapters.val))
    /\ UNCHANGED <<os_adapters, adapters, nth_result, monitors, text_buf,
                   text_helper, text_inline, os_settings, info, set_call,
                   orient_trip>>

\* DisplayAdapter::monitors(&self) on the adapter of index a; the OS answers
\* from the table os it keeps for that adapter
ListMonitors ==
    /\ adapters.tag = "Some"
    /\ \E a \in 1..Len(adapters.val), os \in Backends(MonitorDevices) :
          monitors' = [adapter |-> a, os |-> os, got |-> Monitors_new(os)]
    /\ UNCHANGED <<os_adapters, adapters, nth_result, iter_result, text_buf,
                   text_helper, text_inline, os_settings, info, set_call,
                   orient_trip>>

\* string_from_utf16_and_strip_null(&buf)
StripHelper ==
    /\ text_helper' = string_from_utf16_and_strip_null(text_buf)
    /\ UNCHANGED <<os_adapters, adapters, nth_result, iter_result, monitors,
                   text_buf, text_inline, os_settings, info, set_call,
                   orient_trip>>

\* String::from_utf16(&buf).unwrap() and retain, as in nth and Monitors::new
StripInline ==
    /\ text_inline' = decode_field(text_buf)
    /\ UNCHANGED <<os_adapters, adapters, nth_result, iter_result, monitors,
                   text_buf, text_helper, os_settings, info, set_call,
                   orient_trip>>

\* DisplayAdapter::info(&self)
GetInfo ==
    /\ info' = DisplayDeviceInfo_new(os_settings)
    /\ UNCHANGED <<os_adapters, adapters, nth_result, iter_result, monitors,
                   text_buf, text_helper, text_inline, os_settings, set_call,
                   orient_trip>>

\* DisplayAdapter::set_orientation(&self, orientation); ret is what
\* ChangeDisplaySettingsW returns
SetOrientation ==
    /\ \E orientation \in DisplayOrientation, ret \in ChangeCodes :
          set_call' = [requested |-> orientation,
                       submitted |-> set_orientation_request(os_settings, orientation),
                       ret |-> ret,
                       result |-> set_orientation_result(ret)]
    /\ UNCHANGED <<os_adapters, adapters, nth_result, iter_result, monitors,
                   text_buf, text_helper, text_inline, os_settings, info,
                   orient_trip>>

\* DisplayOrientation::as_raw(self), then DisplayOrientation::from_raw of it
RoundTrip ==
    /\ \E o \in DisplayOrientation :
          orient_trip' = [value |-> o,
                          raw |-> DisplayOrientation_as_raw(o),
                          back |-> DisplayOrientation_from_raw(DisplayOrientation_as_raw(o))]
    /\ UNCHANGED <<os_adapters, adapters, nth_result, iter_result, monitors,
                   text_buf, text_helper, text_inline, os_settings, info,
                   set_call>>

(***************************************************************************)
(* Specifications: one per component, each with the OS answers drawn in    *)
(* its initial states.                                                     *)
(***************************************************************************)
InitEnum ==
    /\ Idle
    /\ os_adapters \in Backends(AdapterDevices)
    /\ text_buf = ZeroBuffer
    /\ os_settings = [ret |-> 0, devmode |-> ZeroedDevmode]

NextEnum == NewAdapters \/ NthAdapter \/ IterAdapters \/ ListMonitors

SpecEnum == InitEnum /\ [][NextEnum]_vars

InitText ==
    /\ Idle
    /\ os_adapters = [devs |-> <<>>, last |-> 0]
    /\ text_buf \in Buffers
    /\ os_settings = [ret |-> 0, devmode |-> ZeroedDevmode]

NextText == StripHelper \/ StripInline

SpecText == InitText /\ [][NextText]_vars

InitInfo ==
    /\ Idle
    /\ os_adapters = [devs |-> <<>>, last |-> 0]
    /\ text_buf = ZeroBuffer
    /\ os_settings \in SettingsAnswers

NextInfo == GetInfo

SpecInfo == InitInfo /\ [][NextInfo]_vars

InitSet ==
    /\ Idle
    /\ os_adapters = [devs |-> <<>>, last |-> 0]
    /\ text_buf = ZeroBuffer
    /\ os_settings \in SettingsSamples

NextSet == SetOrientation \/ RoundTrip

SpecSet == InitSet /\ [][NextSet]_vars

(***************************************************************************)
(* Properties.                                                             *)
(***************************************************************************)
Called(x) == x # NotCalled

\* bit is set in the mask (bit is a power of two)
MaskHas(mask, bit) == (mask \div bit) % 2 = 1

\* the code units of v before its first null
RECURSIVE BeforeFirstNull(_)
BeforeFirstNull(v) ==
    IF v = <<>> \/ Head(v) = 0 THEN <<>> ELSE <<Head(v)>> \o BeforeFirstNull(Tail(v))

\* v holds a null followed, somewhere, by a non-null code unit
HasLeftover(v) == \E i, j \in 1..Len(v) : i < j /\ v[i] = 0 /\ v[j] # 0

\* C1: when the OS answers indices 0..N-1 with success (N >= 1) and index N
\* with "not found", DisplayAdapters::new returns a list of exactly N
\* adapters, and the i-th adapter, as nth(i) and iter() give it, is the one
\* built from the OS record of index i.
C1_ExactlyNInOrder ==
    (Called(adapters) /\ os_adapters.last = 0 /\ Len(os_adapters.devs) >= 1) =>
        /\ adapters.tag = "Some"
        /\ Len(adapters.val) = Len(os_adapters.devs)
        /\ \A i \in 1..Len(os_adapters.devs) :
              adapters.val[i].raw = os_adapters.devs[i]
        /\ (Called(nth_result) /\ nth_result.n < Len(os_adapters.devs)) =>
              /\ nth_result.got.tag = "Some"
              /\ nth_result.got.val.raw = os_adapters.devs[nth_result.n + 1]
        /\ Called(iter_result) =>
              /\ Len(iter_result.val) = Len(os_adapters.devs)
              /\ \A i \in 1..Len(os_adapters.devs) :
                    iter_result.val[i].raw = os_adapters.devs[i]

\* C2: a buffer with an embedded null followed by leftover non-null content
\* decodes to exactly the text before the first null, by the helper and by
\* the inline statements alike.
C2_TruncatesAtFirstNull ==
    HasLeftover(text_buf) =>
        /\ text_helper.tag = "Some" =>
              text_helper.val = String_from_utf16(BeforeFirstNull(text_buf)).val
        /\ text_inline.tag = "Some" =>
              text_inline.val = String_from_utf16(BeforeFirstNull(text_buf)).val

\* C3: DisplayAdapter::info returns a DisplayDeviceInfo whatever the OS
\* answered and whatever the record holds; it never aborts.
C3_InfoAlwaysReturns == Called(info) => info.tag = "Info"

\* C4: with only the position and frequency bits set (and a device name that
\* is text), position and frequency are present and the five other optional
\* attributes are absent, whatever their storage holds; and in every
\* snapshot an optional attribute whose presence bit is unset is absent.
C4_AbsentWhenBitUnset ==
    Called(info) =>
        LET d == os_settings.devmode
        IN  /\ (/\ d.dmFields = DM_POSITION + DM_DISPLAYFREQUENCY
                /\ String_from_utf16(d.dmDeviceName).tag = "Ok") =>
                  /\ info.tag = "Info"
                  /\ info.position = Some(d.dmPosition)
                  /\ info.frequency = Some(d.dmDisplayFrequency)
                  /\ info.orientation = None
                  /\ info.bits_per_pel = None
                  /\ info.pels_width = None
                  /\ info.pels_height = None
                  /\ info.flags = None
            /\ info.tag = "Info" =>
                  /\ ~MaskHas(d.dmFields, DM_POSITION) => info.position = None
                  /\ ~MaskHas(d.dmFields, DM_DISPLAYORIENTATION) => info.orientation = None
                  /\ ~MaskHas(d.dmFields, DM_BITSPERPEL) => info.bits_per_pel = None
                  /\ ~MaskHas(d.dmFields, DM_PELSWIDTH) => info.pels_width = None
                  /\ ~MaskHas(d.dmFields, DM_PELSHEIGHT) => info.pels_height = None
                  /\ ~MaskHas(d.dmFields, DM_DISPLAYFLAGS) => info.flags = None
                  /\ ~MaskHas(d.dmFields, DM_DISPLAYFREQUENCY) => info.frequency = None

\* C4 witness: a snapshot of a record with exactly the position and frequency
\* bits and non-zero values in the storage of every unset field
C4_Witness ==
    /\ Called(info)
    /\ info.tag = "Info"
    /\ os_settings.devmode.dmFields = DM_POSITION + DM_DISPLAYFREQUENCY
    /\ os_settings.devmode.dmDisplayOrientation = DMDO_270
    /\ os_settings.devmode.dmBitsPerPel = 32
    /\ os_settings.devmode.dmPelsWidth = 1920
    /\ os_settings.devmode.dmPelsHeight = 1080
    /\ os_settings.devmode.dmDisplayFlags = DM_INTERLACED

\* C5: the result of set_orientation is a function of the return code alone:
\* success gives Ok(()), each of the seven rejection codes gives Err of its
\* own variant, and every other code aborts.
C5_ResultByReturnCode ==
    Called(set_call) =>
        /\ set_call.ret = DISP_CHANGE_SUCCESSFUL => set_call.result = Ok(<<>>)
        /\ set_call.ret = DISP_CHANGE_BADDUALVIEW => set_call.result = ErrOf("BadDualView")
        /\ set_call.ret = DISP_CHANGE_BADFLAGS => set_call.result = ErrOf("BadFlags")
        /\ set_call.ret = DISP_CHANGE_BADMODE => set_call.result = ErrOf("BadMode")
        /\ set_call.ret = DISP_CHANGE_BADPARAM => set_call.result = ErrOf("BadParam")
        /\ set_call.ret = DISP_CHANGE_FAILED => set_call.result = ErrOf("Failed")
        /\ set_call.ret = DISP_CHANGE_NOTUPDATED => set_call.result = ErrOf("NotUpdated")
        /\ set_call.ret = DISP_CHANGE_RESTART => set_call.result = ErrOf("Restart")
        /\ (set_call.ret < DISP_CHANGE_BADDUALVIEW \/ set_call.ret > DISP_CHANGE_RESTART)
              => set_call.result = Panic

\* C5 witness: the OS answered the request with the bad-mode code
C5_Witness == Called(set_call) /\ set_call.ret = DISP_CHANGE_BADMODE

\* C6: each enumerator returns None exactly when the OS reports "not found"
\* for index 0, and a list it returns holds at least one element.
C6_NoneIffNothingFound ==
    /\ Called(adapters) =>
          /\ adapters.tag = "None" <=>
                (Len(os_adapters.devs) = 0 /\ os_adapters.last = 0)
          /\ adapters.tag = "Some" => Len(adapters.val) >= 1
    /\ Called(monitors) =>
          /\ monitors.got.tag = "None" <=>
                (Len(monitors.os.devs) = 0 /\ monitors.os.last = 0)
          /\ monitors.got.tag = "Some" => Len(monitors.got.val) >= 1

\* C6 witness: an adapter was found and it has no monitor
C6_Witness ==
    /\ Called(adapters)
    /\ adapters.tag = "Some"
    /\ Called(monitors)
    /\ monitors.got.tag = "None"

\* C7: set_orientation submits a record whose mask is exactly the
\* display-orientation bit and whose orientation field is the numeric form
\* of the requested value, with no flag asking for the change to be stored.
C7_SubmitsOrientationOnly ==
    Called(set_call) =>
        /\ set_call.submitted.devmode.dmFields = DM_DISPLAYORIENTATION
        /\ set_call.requested = "Default" =>
              set_call.submitted.devmode.dmDisplayOrientation = DMDO_DEFAULT
        /\ set_call.requested = "Rotate90" =>
              set_call.submitted.devmode.dmDisplayOrientation = DMDO_90
        /\ set_call.requested = "Rotate180" =>
              set_call.submitted.devmode.dmDisplayOrientation = DMDO_180
        /\ set_call.requested = "Rotate270" =>
              set_call.submitted.devmode.dmDisplayOrientation = DMDO_270
        /\ set_call.submitted.dwFlags = 0

\* C7 witness: a rotation was requested while the OS reported every decoded
\* field as present
C7_Witness ==
    /\ Called(set_call)
    /\ set_call.requested = "Rotate90"
    /\ os_settings.devmode.dmFields = SetSum(DecodedBits)

\* C8: from_raw(as_raw(o)) = Some(o) for each of the four values, and no two
\* values share a numeric form.
C8_RoundTrip ==
    Called(orient_trip) =>
        /\ orient_trip.back = Some(orient_trip.value)
        /\ \A o \in DisplayOrientation \ {orient_trip.value} :
              DisplayOrientation_as_raw(o) # orient_trip.raw

\* C8 witness: Rotate270 went through as_raw and from_raw
C8_Witness == Called(orient_trip) /\ orient_trip.value = "Rotate270"

\* C9: each of position, bits_per_pel, pels_width, pels_height, flags and
\* frequency whose presence bit is set is present in the snapshot and equals
\* the field of the record.
C9_PresentWhenBitSet ==
    (Called(info) /\ info.tag = "Info") =>
        LET d == os_settings.devmode
        IN  /\ MaskHas(d.dmFields, DM_POSITION) => info.position = Some(d.dmPosition)
            /\ MaskHas(d.dmFields, DM_BITSPERPEL) => info.bits_per_pel = Some(d.dmBitsPerPel)
            /\ MaskHas(d.dmFields, DM_PELSWIDTH) => info.pels_width = Some(d.dmPelsWidth)
            /\ MaskHas(d.dmFields, DM_PELSHEIGHT) => info.pels_height = Some(d.dmPelsHeight)
            /\ MaskHas(d.dmFields, DM_DISPLAYFLAGS) => info.flags = Some(d.dmDisplayFlags)
            /\ MaskHas(d.dmFields, DM_DISPLAYFREQUENCY) =>
                  info.frequency = Some(d.dmDisplayFrequency)

\* C10: with the orientation bit set and an orientation value that is none
\* of the four constants, the snapshot is the one of the same record with a
\* recognized orientation, except that orientation is absent; new aborts on
\* it only if it aborts on that record too.
C10_UnknownOrientationAbsent ==
    LET d == os_settings.devmode
        known == {DMDO_DEFAULT, DMDO_90, DMDO_180, DMDO_270}
    IN  (/\ Called(info)
         /\ MaskHas(d.dmFields, DM_DISPLAYORIENTATION)
         /\ d.dmDisplayOrientation \notin known) =>
            \A o \in known :
                LET same == DisplayDeviceInfo_new(
                                [os_settings EXCEPT !.devmode.dmDisplayOrientation = o])
                IN  IF same.tag = "Panic" THEN info.tag = "Panic"
                    ELSE /\ info.tag = "Info"
                         /\ info.orientation = None
                         /\ same.orientation.tag = "Some"
                         /\ [info EXCEPT !.orientation = same.orientation] = same

\* C10 witness: a snapshot of a record whose orientation bit is set and whose
\* orientation field holds 4, with other attributes present
C10_Witness ==
    /\ Called(info)
    /\ info.tag = "Info"
    /\ MaskHas(os_settings.devmode.dmFields, DM_DISPLAYORIENTATION)
    /\ os_settings.devmode.dmDisplayOrientation = 4
    /\ info.position.tag = "Some"
    /\ info.frequency.tag = "Some"

====
